---- MODULE Spec2Model ----
(***************************************************************************)
(* A model of app.py: the Streamlit script that resolves a YouTube channel *)
(* URL to a channel id (get_channel_id), collects the channel's videos     *)
(* page by page (fetch_videos) and renders them sorted by comment count.   *)
(*                                                                         *)
(* Strings that the code splits and searches are sequences of one-letter   *)
(* strings, so that `in`, str.split and str.rstrip are computed, not       *)
(* assumed.  The YouTube Data API is the environment: its answers are      *)
(* nondeterministic, and each call may raise instead of answering.         *)
(*                                                                         *)
(* SpecResolve follows one URL through get_channel_id and the Presenter's  *)
(* check of its result, over reruns of the script.  Spec follows           *)
(* fetch_videos and the rendering, over reruns with the channel ids that   *)
(* the resolution produced.  FairSpec is Spec with the fairness that a     *)
(* synchronous, single-threaded script has: a call that answers is         *)
(* followed by the code after it.                                          *)
(***************************************************************************)
EXTENDS Integers, Sequences, FiniteSets, TLC

VARIABLES
    channel_url,  \* st.text_input: the URL, a sequence of characters
    pc,           \* where the script run is
    runs,         \* number of script runs so far (Streamlit reruns the script)
    failed,       \* an API call of this run raised
    entered,      \* branches of get_channel_id entered by this run's call
    calls,        \* API requests issued by this run, in order
    replies,      \* the answers to them, in order (a call that raised has none)
    channel_id,   \* the value get_channel_id returned to the Presenter
    urlCache,     \* st.cache_data of get_channel_id: url -> result
    videoCache,   \* st.cache_data of fetch_videos: channel id -> list
    videos,       \* fetch_videos: local list
    next_token,   \* fetch_videos: local continuation token
    search_res,   \* fetch_videos: local, the current listing page
    ids,          \* fetch_videos: local, ids of the current page
    title_map,    \* fetch_videos: local, videoId -> title of the current page
    all_videos,   \* the value fetch_videos returned to the Presenter
    rendered,     \* the list the Presenter wrote (sorted_videos)
    upstream,     \* the channel's listing pages as the platform serves them
    history,      \* channel id -> result of its first successful fetch_videos
    repeat        \* this run's fetch_videos call follows a successful one

vars == <<channel_url, pc, runs, failed, entered, calls, replies, channel_id, urlCache,
          videoCache, videos, next_token, search_res, ids, title_map, all_videos,
          rendered, upstream, history, repeat>>

collectVars == <<videoCache, videos, next_token, search_res, ids, title_map, all_videos,
                 rendered, upstream, history, repeat>>

----------------------------------------------------------------------------
(* Bounds of the model *)

MaxPieces == 3
MaxPages == 3
MaxRuns == 3
MaxCalls == MaxPages + 2

VideoIds == {"v1", "v2", "v3"}
ChannelIds == {<<"U", "1">>, <<"U", "2">>}

----------------------------------------------------------------------------
(* Python values *)

None == <<"None">>
\* A name of the script that no statement has bound yet in this run.
Unset == <<[unset |-> TRUE]>>
NoToken == 0
EmptyDict == [k \in {} |-> 0]

Falsy(x) == x = None \/ x = <<>>

Get(d, k, default) == IF k \in DOMAIN d THEN d[k] ELSE default

IsAt(s, sep, i) ==
    /\ i + Len(sep) - 1 <= Len(s)
    /\ SubSeq(s, i, i + Len(sep) - 1) = sep

RECURSIVE Find(_, _, _)
Find(s, sep, i) ==
    IF i + Len(sep) - 1 > Len(s) THEN 0
    ELSE IF IsAt(s, sep, i) THEN i
    ELSE Find(s, sep, i + 1)

Contains(s, sep) == Find(s, sep, 1) # 0

RECURSIVE Split(_, _)
Split(s, sep) ==
    LET i == Find(s, sep, 1)
    IN  IF i = 0 THEN <<s>>
        ELSE <<SubSeq(s, 1, i - 1)>> \o Split(SubSeq(s, i + Len(sep), Len(s)), sep)

RECURSIVE RStrip(_, _)
RStrip(s, ch) ==
    IF s # <<>> /\ s[Len(s)] = ch THEN RStrip(SubSeq(s, 1, Len(s) - 1), ch) ELSE s

Last(s) == s[Len(s)]

----------------------------------------------------------------------------
(* get_channel_id *)

MChannel == <<"/", "c", "h", "a", "n", "n", "e", "l", "/">>
MUser == <<"/", "u", "s", "e", "r", "/">>
MCustom == <<"/", "c", "/">>
MHandle == <<"/", "@">>
Slash == <<"/">>

Pieces == {MChannel, MUser, MCustom, MHandle, Slash, <<"x">>}

RECURSIVE Concat(_)
Concat(ps) == IF ps = <<>> THEN <<>> ELSE Head(ps) \o Concat(Tail(ps))

Urls == {Concat(ps) : ps \in UNION {[1..n -> Pieces] : n \in 1..MaxPieces}}

SegmentToEnd(url, marker) == Split(url, marker)[2]

\* url.split(marker)[1].split("/")[0]
Segment(url, marker) == Split(Split(url, marker)[2], Slash)[1]

\* url.rstrip("/").split("/")[-1]
FallbackName(url) == Last(Split(RStrip(url, "/"), Slash))

DispatchHandleFirst(url) ==
    IF Contains(url, MChannel) THEN "channel"
    ELSE IF Contains(url, MUser) THEN "user"
    ELSE IF Contains(url, MHandle) THEN "handle"
    ELSE IF Contains(url, MCustom) THEN "custom"
    ELSE "fallback"

\* The chain of `if "<marker>" in url:` tests, each branch ending in a return.
Dispatch(url) ==
    IF Contains(url, MChannel) THEN "channel"
    ELSE IF Contains(url, MUser) THEN "user"
    ELSE IF Contains(url, MCustom) THEN "custom"
    ELSE IF Contains(url, MHandle) THEN "handle"
    ELSE "fallback"

\* The text the entered branch extracts from the url.
Extracted(url, branch) ==
    CASE branch = "channel" -> Segment(url, MChannel)
      [] branch = "user" -> Segment(url, MUser)
      [] branch = "custom" -> Segment(url, MCustom)
      [] branch = "handle" -> Segment(url, MHandle)
      [] OTHER -> FallbackName(url)

\* The request the entered branch sends (the "channel" branch sends none).
Request(url, branch) ==
    IF branch = "user"
    THEN [api |-> "channels.list", forUsername |-> Extracted(url, branch)]
    ELSE [api |-> "search.list", q |-> Extracted(url, branch)]

CacheNeverHit(cache, key) == FALSE

\* st.cache_data: a stored result is returned without running the function.
CacheHit(cache, key) == key \in DOMAIN cache

CacheStore(cache, key, value) == (key :> value) @@ cache

\* res.get("items", []) of either lookup: no item, or the one asked for.
ResolveItems == {<<>>} \cup {<<c>> : c \in ChannelIds}

\* items[0]["id"] if items else None (and the same on snippet.channelId)
FirstOrNone(items) == IF items # <<>> THEN items[1] ELSE None

\* get_channel_id(channel_url) is called: a cached result comes back at once;
\* otherwise the branch is chosen, and it returns ("/channel/") or sends its
\* lookup.
get_channel_id ==
    /\ pc = "input"
    /\ channel_url # <<>>
    /\ replies' = <<>>
    /\ IF CacheHit(urlCache, channel_url)
       THEN /\ channel_id' = urlCache[channel_url]
            /\ entered' = <<>>
            /\ calls' = <<>>
            /\ pc' = "resolved"
            /\ UNCHANGED urlCache
       ELSE LET b == Dispatch(channel_url)
            IN  /\ entered' = <<b>>
                /\ IF b = "channel"
                   THEN /\ channel_id' = Extracted(channel_url, b)
                        /\ urlCache' = CacheStore(urlCache, channel_url, channel_id')
                        /\ calls' = <<>>
                        /\ pc' = "resolved"
                   ELSE /\ calls' = <<Request(channel_url, b)>>
                        /\ pc' = "api"
                        /\ UNCHANGED <<channel_id, urlCache>>
    /\ UNCHANGED <<channel_url, runs, failed>>
    /\ UNCHANGED collectVars

\* .execute() answers: the branch returns its result, which is cached.
LookupOk(items) ==
    /\ pc = "api"
    /\ replies' = Append(replies, items)
    /\ channel_id' = FirstOrNone(items)
    /\ urlCache' = CacheStore(urlCache, channel_url, channel_id')
    /\ pc' = "resolved"
    /\ UNCHANGED <<channel_url, runs, failed, entered, calls>>
    /\ UNCHANGED collectVars

\* .execute() raises: nothing catches it, in get_channel_id or in the script.
LookupFail ==
    /\ pc = "api"
    /\ failed' = TRUE
    /\ pc' = "exception"
    /\ UNCHANGED <<channel_url, runs, entered, calls, replies, channel_id, urlCache>>
    /\ UNCHANGED collectVars

\* if not channel_id: st.error(...) else: fetch_videos(channel_id)
PresenterCheck ==
    /\ pc = "resolved"
    /\ pc' = IF Falsy(channel_id) THEN "error_shown" ELSE "fetch"
    /\ UNCHANGED <<channel_url, runs, failed, entered, calls, replies, channel_id,
                   urlCache>>
    /\ UNCHANGED collectVars

\* A widget changes (the filter, say) and Streamlit runs the script again on
\* the same URL; the caches live on.
RerunSameUrl ==
    /\ pc \in {"error_shown", "fetch", "exception"}
    /\ runs < MaxRuns
    /\ runs' = runs + 1
    /\ pc' = "input"
    /\ failed' = FALSE
    /\ entered' = <<>>
    /\ calls' = <<>>
    /\ replies' = <<>>
    /\ channel_id' = None
    /\ UNCHANGED <<channel_url, urlCache>>
    /\ UNCHANGED collectVars

InitCollectIdle ==
    /\ videoCache = <<>>
    /\ videos = <<>>
    /\ next_token = NoToken
    /\ search_res = EmptyDict
    /\ ids = <<>>
    /\ title_map = EmptyDict
    /\ all_videos = Unset
    /\ rendered = Unset
    /\ upstream = <<>>
    /\ history = <<>>
    /\ repeat = FALSE

InitResolve ==
    /\ channel_url \in Urls
    /\ pc = "input"
    /\ runs = 1
    /\ failed = FALSE
    /\ entered = <<>>
    /\ calls = <<>>
    /\ replies = <<>>
    /\ channel_id = None
    /\ urlCache = <<>>
    /\ InitCollectIdle

NextResolve ==
    \/ get_channel_id
    \/ \E items \in ResolveItems : LookupOk(items)
    \/ LookupFail
    \/ PresenterCheck
    \/ RerunSameUrl

SpecResolve == InitResolve /\ [][NextResolve]_vars

----------------------------------------------------------------------------
(* The platform, as fetch_videos sees it *)

\* Lists without repetition over a set: a page of video ids.
RECURSIVE ListsOver(_)
ListsOver(S) ==
    {<<>>} \cup UNION {{<<v>> \o l : l \in ListsOver(S \ {v})} : v \in S}

Range(s) == {s[k] : k \in DOMAIN s}

\* A channel's listing: 1..MaxPages pages, no video on two pages.  A page may
\* be empty (the search endpoint does serve empty pages that carry a token).
Listings ==
    {ps \in UNION {[1..n -> ListsOver(VideoIds)] : n \in 1..MaxPages} :
        \A i, j \in DOMAIN ps : i # j => Range(ps[i]) \cap Range(ps[j]) = {}}

Title(v) == CASE v = "v1" -> "First" [] v = "v2" -> "Second" [] OTHER -> "Later"

Duration(v) == CASE v = "v1" -> "PT1M30S" [] v = "v2" -> "PT3M" [] OTHER -> "PT5M"

\* v2 has its comments disabled: no commentCount among its statistics.
Statistics(v) ==
    CASE v = "v1" -> [commentCount |-> "5"]
      [] v = "v2" -> EmptyDict
      [] OTHER -> [commentCount |-> "50"]

ListItem(v) == [id |-> [videoId |-> v], snippet |-> [title |-> Title(v)]]

DetailItem(v) ==
    [id |-> v, contentDetails |-> [duration |-> Duration(v)],
     statistics |-> Statistics(v)]

\* search().list(channelId, pageToken, order="date", type="video"): the page
\* the token names (the first without one), and the next page's token if any.
SearchList(pages, token) ==
    LET i == IF token = NoToken THEN 1 ELSE token
        items == [k \in 1..Len(pages[i]) |-> ListItem(pages[i][k])]
    IN  IF i < Len(pages)
        THEN [items |-> items, nextPageToken |-> i + 1]
        ELSE [items |-> items]

Perms(n) == {p \in [1..n -> 1..n] : \A a, b \in 1..n : a # b => p[a] # p[b]}

\* videos().list(id="a,b,c"): one record per id asked for, in an order of the
\* platform's choosing.
VideosList(idparam, p) ==
    LET asked == Split(idparam, <<",">>)
    IN  [k \in 1..Len(asked) |-> DetailItem(asked[p[k]][1])]

----------------------------------------------------------------------------
(* fetch_videos *)

\* ','.join(ids)
RECURSIVE Join(_)
Join(l) ==
    IF l = <<>> THEN <<>>
    ELSE IF Len(l) = 1 THEN <<l[1]>>
    ELSE <<l[1], ",">> \o Join(Tail(l))

\* isodate.parse_duration(...).total_seconds(), on the durations served
ParseDuration(s) ==
    CASE s = "PT1M30S" -> 90 [] s = "PT3M" -> 180 [] s = "PT5M" -> 300

\* int(...) of a count as the platform writes it, or of the default 0
ParseInt(s) == CASE s = "0" -> 0 [] s = "5" -> 5 [] s = "50" -> 50

Record(d, tmap) ==
    [id |-> d.id,
     title |-> Get(tmap, d.id, "Untitled"),
     url |-> <<"https://www.youtube.com/watch?v=", d.id>>,
     duration |-> ParseDuration(d.contentDetails.duration),
     comments |-> ParseInt(Get(Get(d, "statistics", EmptyDict), "commentCount", "0"))]

ListRequest(cid, token) == [api |-> "search.list", channelId |-> cid, pageToken |-> token]

DetailRequest(l) == [api |-> "videos.list", id |-> Join(l)]

SearchCalls(cs) == Cardinality({k \in DOMAIN cs : cs[k].api = "search.list"})

DetailCalls(cs) == Cardinality({k \in DOMAIN cs : cs[k].api = "videos.list"})

NextPageTokenFirstOnly(res) == NoToken

NextPageTokenStuck(res) == IF "nextPageToken" \in DOMAIN res THEN 2 ELSE NoToken

\* search_res.get("nextPageToken")
NextPageToken(res) == Get(res, "nextPageToken", NoToken)

\* `return videos`, through st.cache_data: the result is stored under the
\* argument.  history keeps the first result per channel id.
Return(v) ==
    /\ all_videos' = v
    /\ videoCache' = CacheStore(videoCache, channel_id, v)
    /\ history' = IF channel_id \in DOMAIN history THEN history
                  ELSE CacheStore(history, channel_id, v)
    /\ pc' = "fetched"

\* fetch_videos(channel_id) is called: a cached list comes back at once,
\* otherwise the body starts and sends the first listing request.
fetch_videos ==
    /\ pc = "fetch"
    /\ repeat' = (channel_id \in DOMAIN history)
    /\ replies' = <<>>
    /\ IF CacheHit(videoCache, channel_id)
       THEN /\ all_videos' = videoCache[channel_id]
            /\ calls' = <<>>
            /\ pc' = "fetched"
            /\ UNCHANGED <<videos, next_token>>
       ELSE /\ videos' = <<>>
            /\ next_token' = NoToken
            /\ calls' = <<ListRequest(channel_id, NoToken)>>
            /\ pc' = "list"
            /\ UNCHANGED all_videos
    /\ UNCHANGED <<channel_url, runs, failed, entered, channel_id, urlCache,
                   videoCache, search_res, ids, title_map, rendered, upstream,
                   history>>

\* The listing answers: ids and title_map are built; an empty page leaves the
\* loop, any other page sends its ids to videos().list.
ListOk ==
    /\ pc = "list"
    /\ LET res == SearchList(upstream, next_token)
           items == Get(res, "items", <<>>)
           page == [k \in 1..Len(items) |-> items[k].id.videoId]
       IN  /\ search_res' = res
           /\ ids' = page
           /\ title_map' = [v \in Range(page) |->
                 items[CHOOSE k \in DOMAIN items : items[k].id.videoId = v].snippet.title]
           /\ replies' = Append(replies, page)
           /\ IF page = <<>>
              THEN /\ Return(videos)
                   /\ UNCHANGED calls
              ELSE /\ calls' = Append(calls, DetailRequest(page))
                   /\ pc' = "detail"
                   /\ UNCHANGED <<all_videos, videoCache, history>>
    /\ UNCHANGED <<channel_url, runs, failed, entered, channel_id, urlCache,
                   videos, next_token, rendered, upstream, repeat>>

\* The details answer: one record is appended per detail item, in the order
\* of the answer; then the page's token decides between the next listing
\* request and the return.
DetailOk(p) ==
    /\ pc = "detail"
    /\ \E details \in {VideosList(calls[Len(calls)].id, p)} :
       \E token \in {NextPageToken(search_res)} :
           /\ replies' = Append(replies, [k \in DOMAIN details |-> details[k].id])
           /\ videos' = videos \o [k \in DOMAIN details |-> Record(details[k], title_map)]
           /\ next_token' = token
           /\ IF token = NoToken
              THEN /\ Return(videos')
                   /\ UNCHANGED calls
              ELSE /\ SearchCalls(calls) < MaxCalls
                   /\ calls' = Append(calls, ListRequest(channel_id, token))
                   /\ pc' = "list"
                   /\ UNCHANGED <<all_videos, videoCache, history>>
    /\ UNCHANGED <<channel_url, runs, failed, entered, channel_id, urlCache,
                   search_res, ids, title_map, rendered, upstream, repeat>>

FetchFailReturnsPartial ==
    /\ pc \in {"list", "detail"}
    /\ failed' = TRUE
    /\ Return(videos)
    /\ UNCHANGED <<channel_url, runs, entered, calls, replies, channel_id, urlCache,
                   videos, next_token, search_res, ids, title_map, rendered,
                   upstream, repeat>>

\* .execute() of either call raises: fetch_videos has no handler and neither
\* has the script, so the run ends there; st.cache_data stores nothing.
FetchFail ==
    /\ pc \in {"list", "detail"}
    /\ failed' = TRUE
    /\ pc' = "exception"
    /\ UNCHANGED <<channel_url, runs, entered, calls, replies, channel_id, urlCache>>
    /\ UNCHANGED collectVars

FilterOptions == {"Both", "Videos (>3 mins)", "Shorts (<=3 mins)"}

Keep(v, option) ==
    CASE option = "Videos (>3 mins)" -> v.duration > 180
      [] option = "Shorts (<=3 mins)" -> v.duration <= 180
      [] OTHER -> TRUE

RECURSIVE Filtered(_, _)
Filtered(l, option) ==
    IF l = <<>> THEN <<>>
    ELSE IF Keep(Head(l), option) THEN <<Head(l)>> \o Filtered(Tail(l), option)
    ELSE Filtered(Tail(l), option)

\* sorted(..., key=comments, reverse=True): stable, equal counts keep their order
RECURSIVE InsertByComments(_, _)
InsertByComments(l, v) ==
    IF l = <<>> THEN <<v>>
    ELSE IF Head(l).comments >= v.comments THEN <<Head(l)>> \o InsertByComments(Tail(l), v)
    ELSE <<v>> \o l

RECURSIVE SortedByComments(_)
SortedByComments(l) ==
    IF l = <<>> THEN <<>>
    ELSE InsertByComments(SortedByComments(SubSeq(l, 1, Len(l) - 1)), l[Len(l)])

\* The Presenter filters, sorts and writes the list.
Render(option) ==
    /\ pc = "fetched"
    /\ rendered' = SortedByComments(Filtered(all_videos, option))
    /\ pc' = "done"
    /\ UNCHANGED <<channel_url, runs, failed, entered, calls, replies, channel_id,
                   urlCache, videoCache, videos, next_token, search_res, ids,
                   title_map, all_videos, upstream, history, repeat>>

\* The user submits again and the script reruns; get_channel_id hands the
\* Presenter the channel id c.  The caches live on, the locals do not.
NextRequest(c) ==
    /\ pc \in {"done", "exception"}
    /\ runs < MaxRuns
    /\ runs' = runs + 1
    /\ channel_id' = c
    /\ pc' = "fetch"
    /\ failed' = FALSE
    /\ calls' = <<>>
    /\ replies' = <<>>
    /\ videos' = <<>>
    /\ next_token' = NoToken
    /\ search_res' = EmptyDict
    /\ ids' = <<>>
    /\ title_map' = EmptyDict
    /\ all_videos' = Unset
    /\ rendered' = Unset
    /\ repeat' = FALSE
    /\ UNCHANGED <<channel_url, entered, urlCache, videoCache, upstream, history>>

Init ==
    /\ channel_url = <<>>
    /\ pc = "fetch"
    /\ runs = 1
    /\ failed = FALSE
    /\ entered = <<>>
    /\ calls = <<>>
    /\ replies = <<>>
    /\ channel_id \in ChannelIds
    /\ urlCache = <<>>
    /\ videoCache = <<>>
    /\ videos = <<>>
    /\ next_token = NoToken
    /\ search_res = EmptyDict
    /\ ids = <<>>
    /\ title_map = EmptyDict
    /\ all_videos = Unset
    /\ rendered = Unset
    /\ upstream \in Listings
    /\ history = <<>>
    /\ repeat = FALSE

Next ==
    \/ fetch_videos
    \/ ListOk
    \/ \E p \in Perms(Len(ids)) : DetailOk(p)
    \/ FetchFail
    \/ \E option \in FilterOptions : Render(option)
    \/ \E c \in ChannelIds : NextRequest(c)

Spec == Init /\ [][Next]_vars

\* The script is synchronous and single-threaded: once fetch_videos is called
\* or a call has answered, the code after it runs.  Nothing obliges the
\* platform to answer rather than fail, or the user to submit again.
FetchStep == fetch_videos \/ ListOk \/ \E p \in Perms(Len(ids)) : DetailOk(p)

FairSpec == Spec /\ WF_vars(FetchStep)

----------------------------------------------------------------------------
(* What the claims speak of, stated on the url and the listing themselves *)

Occurs(url, m, i) ==
    /\ i >= 1
    /\ i + Len(m) - 1 <= Len(url)
    /\ \A k \in 1..Len(m) : url[i + k - 1] = m[k]

HasMarker(url, m) == \E i \in 1..Len(url) : Occurs(url, m, i)

\* The text between the first occurrence of m and the next "/" (or the end).
TextAfter(url, m) ==
    LET i == CHOOSE a \in 1..Len(url) :
                 Occurs(url, m, a) /\ \A b \in 1..(a - 1) : ~Occurs(url, m, b)
        from == i + Len(m)
        stops == {j \in from..Len(url) : url[j] = "/"}
        to == IF stops = {} THEN Len(url) + 1
              ELSE CHOOSE j \in stops : \A j2 \in stops : j <= j2
    IN  SubSeq(url, from, to - 1)

\* The last path segment, trailing slashes set aside.
LastSegment(url) ==
    LET body == {j \in 1..Len(url) : url[j] # "/"}
        n == IF body = {} THEN 0 ELSE CHOOSE j \in body : \A j2 \in body : j2 <= j
        cuts == {j \in 1..n : url[j] = "/"}
        c == IF cuts = {} THEN 0 ELSE CHOOSE j \in cuts : \A j2 \in cuts : j2 <= j
    IN  SubSeq(url, c + 1, n)

Priority ==
    <<[name |-> "channel", marker |-> MChannel], [name |-> "user", marker |-> MUser],
      [name |-> "custom", marker |-> MCustom], [name |-> "handle", marker |-> MHandle]>>

Present(url) == {k \in DOMAIN Priority : HasMarker(url, Priority[k].marker)}

HighestBranch(url) ==
    IF Present(url) = {} THEN "fallback"
    ELSE Priority[CHOOSE k \in Present(url) : \A k2 \in Present(url) : k <= k2].name

ExpectedText(url) ==
    IF Present(url) = {} THEN LastSegment(url)
    ELSE TextAfter(url, Priority[CHOOSE k \in Present(url) :
                                     \A k2 \in Present(url) : k <= k2].marker)

Uncached == entered # <<>>

Resolved == pc \in {"resolved", "error_shown", "fetch"}

Fetched == pc \in {"fetched", "done"} /\ calls # <<>>

AllListed == Concat(upstream)

IdsOf(l) == [k \in DOMAIN l |-> l[k].id]

Position(l, v) == CHOOSE k \in DOMAIN l : l[k] = v

----------------------------------------------------------------------------
(* get_channel_id: the claims, checked under SpecResolve *)

\* C1: an uncached call enters exactly one branch, that of the highest-priority
\* marker the url contains (channel > user > c > @ > fallback); the text it
\* extracts and the request it sends are that branch's, and no other branch is
\* entered afterwards, whatever the lookup answers.
C1_FirstMatchWins ==
    /\ Len(entered) <= 1
    /\ Uncached =>
          /\ entered[1] = HighestBranch(channel_url)
          /\ IF entered[1] = "channel"
             THEN /\ calls = <<>>
                  /\ channel_id = ExpectedText(channel_url)
             ELSE /\ Len(calls) = 1
                  /\ IF entered[1] = "user"
                     THEN /\ calls[1].api = "channels.list"
                          /\ calls[1].forUsername = ExpectedText(channel_url)
                     ELSE /\ calls[1].api = "search.list"
                          /\ calls[1].q = ExpectedText(channel_url)

\* A url with both "/c/" and "/@": the custom-name search answered nothing, and
\* the call returned None without entering the handle branch.
C1_Witness ==
    /\ pc = "resolved"
    /\ entered = <<"custom">>
    /\ HasMarker(channel_url, MHandle)
    /\ replies = << <<>> >>
    /\ channel_id = None

\* C2: an uncached call that has returned issued no API call and returned the
\* segment after "/channel/" when the url contains that marker, and otherwise
\* issued exactly one call, answered once; for "/user/" it is the username
\* lookup and the result is the first item's id, or None for no item; in the
\* other branches it is the channel search.
C2_CallsPerBranch ==
    (Uncached /\ Resolved) =>
        IF HasMarker(channel_url, MChannel)
        THEN /\ Len(calls) = 0
             /\ channel_id = TextAfter(channel_url, MChannel)
        ELSE /\ Len(calls) = 1
             /\ Len(replies) = 1
             /\ channel_id = IF replies[1] = <<>> THEN None ELSE replies[1][1]
             /\ calls[1].api =
                   IF HasMarker(channel_url, MUser) THEN "channels.list" ELSE "search.list"

\* "/channel/x/..." with more of the path after the id: x is returned, no call.
C2_Witness ==
    /\ pc = "resolved"
    /\ channel_url = MChannel \o <<"x">> \o Slash
    /\ channel_id = <<"x">>
    /\ calls = <<>>

\* C3: an uncached call returns NotFound (None, or at least a value the
\* Presenter's `not channel_id` takes for it) whenever its lookup answers no
\* item, and whenever the segment its branch extracts is empty.
C3_EmptySegmentIsNotFound ==
    (Uncached /\ Resolved /\ (ExpectedText(channel_url) = <<>> \/ replies = << <<>> >>))
        => Falsy(channel_id)

\* C4: when the lookup raises, get_channel_id hands None to the Presenter, which
\* shows the inline message; the run does not end in an exception.
C4_FailureIsNotFound ==
    failed => (pc \in {"resolved", "error_shown"} /\ channel_id = None)

----------------------------------------------------------------------------
(* fetch_videos: the claims, checked under Spec and FairSpec *)

\* C5: once a call for a channel id has succeeded, its result stays in the
\* cache unchanged, whatever other ids are fetched in between, and every later
\* call for that id returns that same list without any API call.
C5_Memoized ==
    /\ \A c \in DOMAIN history :
          c \in DOMAIN videoCache /\ videoCache[c] = history[c]
    /\ repeat =>
          /\ pc \in {"fetched", "done"}
          /\ calls = <<>>
          /\ all_videos = history[channel_id]

\* A second call for a channel id, after a call for the other id in between.
C5_Witness ==
    /\ repeat
    /\ pc = "fetched"
    /\ runs = 3
    /\ DOMAIN history = ChannelIds
    /\ Len(all_videos) >= 2

\* C6: when every page of the listing is non-empty, an uncached call that has
\* returned made one listing call and one detail call per page, the detail call
\* of a page carrying that page's ids, and its result holds one record per
\* listed video and no id twice.
C6_OneDetailCallPerPage ==
    (Fetched /\ \A i \in DOMAIN upstream : upstream[i] # <<>>) =>
        /\ SearchCalls(calls) = Len(upstream)
        /\ DetailCalls(calls) = Len(upstream)
        /\ \A i \in DOMAIN upstream :
              /\ calls[2 * i].api = "videos.list"
              /\ Split(calls[2 * i].id, <<",">>) =
                    [k \in DOMAIN upstream[i] |-> <<upstream[i][k]>>]
        /\ Range(IdsOf(all_videos)) = Range(AllListed)
        /\ Len(all_videos) = Len(AllListed)

\* Three pages of one video each, fetched to the end.
C6_Witness ==
    /\ pc = "fetched"
    /\ Len(upstream) = 3
    /\ \A i \in DOMAIN upstream : Len(upstream[i]) = 1
    /\ DetailCalls(calls) = 3
    /\ Len(all_videos) = 3

\* C7: the result preserves the listing order: a video listed before another
\* has its record before the other's, whatever the order of the detail answer.
C7_ListingOrderPreserved ==
    Fetched =>
        \A a, b \in DOMAIN all_videos :
            a < b => Position(AllListed, all_videos[a].id)
                         < Position(AllListed, all_videos[b].id)

\* C8: when a listing or detail call raises, the run ends in the exception: the
\* request that raised is the last one sent (no retry, no further call), nothing
\* is returned to the Presenter or rendered, and the cache holds nothing for
\* that channel id.
C8_FailurePropagates ==
    failed =>
        /\ pc = "exception"
        /\ Len(calls) = Len(replies) + 1
        /\ all_videos = Unset
        /\ rendered = Unset
        /\ channel_id \notin DOMAIN videoCache

\* The detail call of the second page raised, with the first page's records
\* already collected.
C8_Witness ==
    /\ failed
    /\ pc = "exception"
    /\ Len(calls) = 4
    /\ videos # <<>>

\* C9: the paging loop makes at most one listing call per page of the listing,
\* and a call whose requests are all answered eventually returns.
C9_Terminates ==
    /\ [](SearchCalls(calls) <= Len(upstream))
    /\ (pc \in {"list", "detail"}) ~> (pc = "fetched" \/ failed)

\* A three-page listing whose last page is the first without a token: the call
\* returned after its third listing call.
C9_Witness ==
    /\ pc = "fetched"
    /\ Len(upstream) = 3
    /\ SearchCalls(calls) = 3
    /\ "nextPageToken" \notin DOMAIN search_res

\* C10: an uncached call that has returned requested every page of the token
\* chain and holds every listed video, unless the first page was empty.
C10_AllPagesRequested ==
    (Fetched /\ upstream[1] # <<>>) =>
        /\ SearchCalls(calls) = Len(upstream)
        /\ Range(AllListed) \subseteq Range(IdsOf(all_videos))

====
